---- MODULE Spec2Model ----
(***************************************************************************)
(* arib-ts2ass: the PCR clock and the per-PES callback of ts2ass.py, the   *)
(* data-unit records of closed_caption.py and the ASS formatter of ass.py. *)
(*                                                                         *)
(* Times are integers counted in PCR ticks (1/90000 s): elapsed_time_s of  *)
(* the source is ticks / 90000.0.  The packet times drawn below never lie  *)
(* on an inexact decimal tie, so the float arithmetic of the source and    *)
(* the integer arithmetic here round to the same centisecond.              *)
(* TLA+ strings are ASCII: a non-ASCII character of the source is written  *)
(* as its code point, "<U+FFFD>" for the replacement character.            *)
(***************************************************************************)
EXTENDS Integers, Sequences, FiniteSets, TLC

VARIABLES
    pc,                 \* where main() is: "start", "parse", "exited"
    exit_code,          \* the process exit status once pc = "exited"
    infile_exists,      \* os.path.exists(infilename)
    SILENT,             \* ts2ass.SILENT (args.quiet)
    pid,                \* ts2ass.pid
    tmax,               \* ts2ass.tmax, seconds
    time_offset,        \* ts2ass.time_offset, in ticks
    initial_timestamp,  \* ts2ass.initial_timestamp: None or Some(pcr)
    elapsed_time_s,     \* ts2ass.elapsed_time_s, in ticks
    ass,                \* ts2ass.ass: None or Some(formatter record)
    ass_file,           \* what has been written to the output file, in order
    drcs_table,         \* DRCS code -> substitute string of the defined glyph
    timestamp,          \* the timestamp argument of the latest format() call
    nStatements,        \* caption statements handled so far (bounds the run)
    last,               \* the latest caption statement visited, and how it ended
    last_cs,            \* the timestamp of the latest Clear Screen gone through
    first_mgmt,         \* the PID of the first management data seen with a language
    nFlushed,           \* buffers that Clear Screen steps sent to the file
    nClears             \* Clear Screens met with a non-empty buffer and start < end

vars == <<pc, exit_code, infile_exists, SILENT, pid, tmax, time_offset,
          initial_timestamp, elapsed_time_s, ass, ass_file, drcs_table,
          timestamp, nStatements, last, last_cs, first_mgmt, nFlushed,
          nClears>>

----------------------------------------------------------------------------
(* Bounds and input sets *)

MaxStatements == 2

TicksPerSecond == 90000

None == <<>>
Some(v) == <<v>>

\* PCR values carried by TS packets; 0 stands for "no PCR in this packet".
PcrBase == TicksPerSecond
SubCentisecond == TicksPerSecond \div 300
PcrValues == {0, PcrBase, PcrBase + SubCentisecond, PcrBase + 6 * TicksPerSecond}

TimeOffsets == {0, -TicksPerSecond}
DefaultTmax == 5
TmaxValues == {DefaultTmax}
Pids == {256, 257}
PidOptions == {-1, 256}

----------------------------------------------------------------------------
(* ass.py: TextSize, ClosedCaptionArea, asstime *)

SMALL == 1
MEDIUM == 2
NORMAL == 3

WhiteColor == "{\\c&Hffffff&}"
ReplacementChar == "<U+FFFD>"

Abs(n) == IF n < 0 THEN -n ELSE n

\* int(a / b) of the source: float division truncated toward zero.
TruncDiv(a, b) == IF a >= 0 THEN a \div b ELSE -((-a) \div b)

\* "{:d}".format(n)
FormatD(n) == ToString(n)

\* "{:02d}".format(n): minimum width 2, zero padded, the sign counted.
Format02d(n) == IF n >= 0 /\ n < 10 THEN "0" \o ToString(n) ELSE ToString(n)

TwoDigits(n) == IF n < 10 THEN "0" \o ToString(n) ELSE ToString(n)

TicksPerCs == TicksPerSecond \div 100

\* Ticks rounded to the nearest centisecond, ties to even.
RoundCs(t) ==
    LET q == t \div TicksPerCs
        r == t % TicksPerCs
    IN IF 2 * r < TicksPerCs THEN q
       ELSE IF 2 * r > TicksPerCs THEN q + 1
       ELSE IF q % 2 = 0 THEN q ELSE q + 1

\* "{:02.2f}".format(seconds): two decimals, minimum width 2.  The shortest
\* result, "0.00", is already 4 wide, so the width never pads anything.
Format02_2f(t) ==
    LET cs == RoundCs(Abs(t))
    IN (IF t < 0 THEN "-" ELSE "") \o ToString(cs \div 100) \o "."
           \o TwoDigits(cs % 100)

asstime(seconds) ==
    LET hrs == TruncDiv(seconds, 3600 * TicksPerSecond)
        s1 == seconds - 3600 * TicksPerSecond * hrs
        mins == TruncDiv(s1, 60 * TicksPerSecond)
        s2 == s1 - 60 * TicksPerSecond * mins
    IN FormatD(hrs) \o ":" \o Format02d(mins) \o ":" \o Format02_2f(s2)

\* ClosedCaptionArea.__init__
UL == [x |-> 170, y |-> 30]
CharacterDim == [width |-> 36, height |-> 36]
char_spacing == 4
line_spacing == 24

\* A number of the source and whether it is a float; str() of a float that
\* holds a whole number ends in ".0".
Num(v, isfloat) == [v |-> v, isfloat |-> isfloat]
StrNum(n) == IF n.isfloat THEN ToString(n.v) \o ".0" ELSE ToString(n.v)

\* RowCol2ScreenPos without the row adjustment (r = row).
RowCol2ScreenPos_lower_left(row, col, size) ==
    LET r == row
        c == col
        w0 == CharacterDim.width + char_spacing
        h0 == CharacterDim.height + line_spacing
        halfh == size = SMALL
        halfw == size = SMALL \/ size = MEDIUM
        h == IF halfh THEN h0 \div 2 ELSE h0
        w == IF halfw THEN w0 \div 2 ELSE w0
    IN [x |-> Num(UL.x + c * w, halfw), y |-> Num(UL.y + r * h, halfh)]

\* ClosedCaptionArea.RowCol2ScreenPos: w / float(2) and h / float(2) are
\* exact here, 40 and 60 being even.
RowCol2ScreenPos(row, col, size) ==
    LET r == row + 1
        c == col
        w0 == CharacterDim.width + char_spacing
        h0 == CharacterDim.height + line_spacing
        halfh == size = SMALL
        halfw == size = SMALL \/ size = MEDIUM
        h == IF halfh THEN h0 \div 2 ELSE h0
        w == IF halfw THEN w0 \div 2 ELSE w0
    IN [x |-> Num(UL.x + c * w, halfw), y |-> Num(UL.y + r * h, halfh)]

----------------------------------------------------------------------------
(* ass.py: ASSFile *)

\* The three writes of ASSFile.__init__ (the texts are cut to their first line).
HeaderText == "[Script Info]\n"
StylesText == "[V4+ Styles]\n"
EventHeaderText == "[Events]\n"
ASSFileInit == <<HeaderText, StylesText, EventHeaderText>>

DialoguePrefix == "Dialogue: 0,"

\* The format string of clear_screen.
DialogueLine(start_time, end_time, line) ==
    DialoguePrefix \o start_time \o "," \o end_time
        \o ",normal,,0000,0000,0000,," \o line \o "\\N\n"

----------------------------------------------------------------------------
(* ass.py: ASSFormatter and its handlers, as functions of the formatter *)

\* ASSFormatter.__init__
ASSFormatter(tmax_, verbose) ==
    [_tmax |-> tmax_,
     _elapsed_time_s |-> 0,
     _ass_file |-> FALSE,
     _current_lines |-> <<"">>,
     _current_style |-> "normal",
     _current_color |-> WhiteColor,
     _current_textsize |-> NORMAL,
     _verbose |-> verbose]

\* ASSFormatter.open_file, when ASSFile() does not raise
open_file(f) == [f EXCEPT !._ass_file = TRUE]

\* ASSFormatter.file_written
file_written(f) == f._ass_file

\* formatter._current_lines[-1] += s
AppendLast(f, s) ==
    [f EXCEPT !._current_lines[Len(f._current_lines)] = @ \o s]

kanji(f, k) == AppendLast(f, k.text)
alphanumeric(f, a) == AppendLast(f, a.text)
hiragana(f, h) == AppendLast(f, h.text)
katakana(f, k) == AppendLast(f, k.text)

medium(f, k) ==
    [AppendLast(f, "{\\rmedium}" \o f._current_color)
        EXCEPT !._current_style = "medium", !._current_textsize = MEDIUM]

normal(f, k) ==
    [AppendLast(f, "{\\rnormal}" \o f._current_color)
        EXCEPT !._current_style = "normal", !._current_textsize = NORMAL]

small(f, k) ==
    [AppendLast(f, "{\\rsmall}" \o f._current_color)
        EXCEPT !._current_style = "small", !._current_textsize = SMALL]

space(f, k) == AppendLast(f, " ")

drcs(f, c) == AppendLast(f, ReplacementChar)

\* black, red, green, yellow, blue, magenta, cyan, white: the override each
\* appends and stores.
ColorTypes == {"BKF", "RDF", "GRF", "YLF", "BLF", "MGF", "CNF", "WHF"}
ColorCode(type) ==
    CASE type = "BKF" -> "{\\c&H000000&}"
      [] type = "RDF" -> "{\\c&H0000ff&}"
      [] type = "GRF" -> "{\\c&H00ff00&}"
      [] type = "YLF" -> "{\\c&H00ffff&}"
      [] type = "BLF" -> "{\\c&Hff0000&}"
      [] type = "MGF" -> "{\\c&Hff00ff&}"
      [] type = "CNF" -> "{\\c&Hffff00&}"
      [] type = "WHF" -> "{\\c&Hffffff&}"

color(f, k) ==
    [AppendLast(f, ColorCode(k.type)) EXCEPT !._current_color = ColorCode(k.type)]

\* A position_set that starts the new buffer in white and forgets the colour.
position_set_white(f, p) ==
    LET pos == RowCol2ScreenPos(p.row, p.col, f._current_textsize)
        line == "{\\r" \o f._current_style \o "}" \o WhiteColor
                    \o "{\\pos(" \o StrNum(pos.x) \o "," \o StrNum(pos.y) \o ")}"
    IN [f EXCEPT !._current_lines = Append(@, line),
                 !._current_color = WhiteColor]

position_set(f, p) ==
    LET pos == RowCol2ScreenPos(p.row, p.col, f._current_textsize)
        line == "{\\r" \o f._current_style \o "}" \o f._current_color
                    \o "{\\pos(" \o StrNum(pos.x) \o "," \o StrNum(pos.y) \o ")}"
    IN [f EXCEPT !._current_lines = Append(@, line)]

Digits == {"0", "1", "2", "3", "4", "5", "6", "7", "8", "9"}
CharAt(s, i) == SubSeq(s, i, i)
AllDigits(s, from, to) == \A i \in from..to : CharAt(s, i) \in Digits

\* a_regex, <CS:"(?P<x>\d{1,4});(?P<y>\d{1,4}) a">, tried at position i with
\* x of lx digits and y of ly digits.
AMatchAt(cmd, i, lx, ly) ==
    /\ i + 5 + lx + 1 + ly + 4 - 1 <= Len(cmd)
    /\ SubSeq(cmd, i, i + 4) = "<CS:\""
    /\ AllDigits(cmd, i + 5, i + 4 + lx)
    /\ CharAt(cmd, i + 5 + lx) = ";"
    /\ AllDigits(cmd, i + 6 + lx, i + 5 + lx + ly)
    /\ SubSeq(cmd, i + 6 + lx + ly, i + 9 + lx + ly) = " a\">"

AMatches(cmd) ==
    {m \in (1..Len(cmd)) \X (1..4) \X (1..4) : AMatchAt(cmd, m[1], m[2], m[3])}

\* re.search(a_regex, cmd): the leftmost match, or none.
a_match(cmd) ==
    LET ms == AMatches(cmd)
    IN IF ms = {} THEN None
       ELSE LET m == CHOOSE m \in ms : \A o \in ms : m[1] <= o[1]
            IN Some([x |-> SubSeq(cmd, m[1] + 5, m[1] + 4 + m[2]),
                     y |-> SubSeq(cmd, m[1] + 6 + m[2], m[1] + 5 + m[2] + m[3])])

\* A control_character that starts a new buffer for every CSI, whatever its
\* final byte.
control_character_any(f, csi) ==
    LET m == a_match(csi.text)
        xy == IF m # None THEN m[1] ELSE [x |-> "0", y |-> "0"]
    IN [f EXCEPT !._current_lines =
           Append(@, "{\\r" \o f._current_style \o "}" \o f._current_color
                         \o "{\\pos(" \o xy.x \o "," \o xy.y \o ")}{\\an1}")]

control_character(f, csi) ==
    LET m == a_match(csi.text)
    IN IF m # None
       THEN [f EXCEPT !._current_lines =
                Append(@, "{\\r" \o f._current_style \o "}" \o f._current_color
                              \o "{\\pos(" \o m[1].x \o "," \o m[1].y \o ")}{\\an1}")]
       ELSE f

\* An end time that is the timestamp whatever the time since the last flush.
cs_end_time_uncapped(f, ts) == asstime(ts)

\* clear_screen, first part: the two times of the Dialogue lines.
cs_end_time(f, ts) ==
    IF ts - f._elapsed_time_s > f._tmax * TicksPerSecond
    THEN asstime(f._elapsed_time_s + f._tmax * TicksPerSecond)
    ELSE asstime(ts)

cs_start_time(f) == asstime(f._elapsed_time_s)

\* The condition of the if: (len(lines[0]) or len(lines)) and start != end.
cs_emits(f, ts) ==
    /\ Len(f._current_lines[1]) # 0 \/ Len(f._current_lines) # 0
    /\ cs_start_time(f) # cs_end_time(f, ts)

RECURSIVE Reversed(_)
Reversed(s) == IF s = <<>> THEN <<>> ELSE Append(Reversed(Tail(s)), Head(s))

RECURSIVE SelectNonEmpty(_)
SelectNonEmpty(s) ==
    IF s = <<>> THEN <<>>
    ELSE IF Len(Head(s)) = 0 THEN SelectNonEmpty(Tail(s))
    ELSE <<Head(s)>> \o SelectNonEmpty(Tail(s))

\* A loop without the `continue`: every buffer is reached.
cs_visited_all(f, ts) ==
    IF cs_emits(f, ts) THEN Reversed(f._current_lines) ELSE <<>>

\* The buffers the for loop of clear_screen reaches past its `continue`, in
\* the order it visits them.
cs_visited(f, ts) ==
    IF cs_emits(f, ts) THEN SelectNonEmpty(Reversed(f._current_lines)) ELSE <<>>

\* The Dialogue lines the loop builds, one per visited buffer.
cs_lines(f, ts) ==
    [i \in 1..Len(cs_visited(f, ts)) |->
        DialogueLine(cs_start_time(f), cs_end_time(f, ts), cs_visited(f, ts)[i])]

\* The formatter after the loop has gone through n visited buffers: the
\* assignment _current_lines = [Dialog("")] sits in the loop body, after the
\* write, so it runs once per visited buffer.
cs_after_loop(f, n) ==
    IF n > 0 THEN [f EXCEPT !._current_lines = <<"">>] ELSE f

\* The three assignments that end clear_screen.
cs_finish(f, ts) ==
    [f EXCEPT !._elapsed_time_s = ts,
              !._current_textsize = NORMAL,
              !._current_color = WhiteColor]

\* clear_screen when no write raises.
clear_screen(f, ts) == cs_finish(cs_after_loop(f, Len(cs_visited(f, ts))), ts)

----------------------------------------------------------------------------
(* closed_caption.py: DRCS glyphs and data units; the caption tokens *)

\* DRCSFont.character_hashes, keyed by the decimal text of the hash.
MusicNoteHash == "-3174437220813644284"
Badge == "<U+1D539>"
character_hashes ==
    [h \in {MusicNoteHash, "-3827305093498498888"} |->
        IF h = MusicNoteHash THEN "<U+266C>" ELSE Badge]

\* DRCSFont.__init__ on a font record of the given mode whose pixel bytes
\* hash to `hash`: the glyph's character, or the ValueError of an
\* unsupported mode.
DRCSFont(mode, hash) ==
    IF mode = 0 \/ mode = 1
    THEN [raised |-> FALSE,
          _character |-> IF hash \in DOMAIN character_hashes
                         THEN character_hashes[hash] ELSE ReplacementChar]
    ELSE [raised |-> TRUE, _character |-> ""]

\* A caption token: its class, str() of it, and the fields some classes have.
Tok(type, text) == [type |-> type, text |-> text, row |-> 0, col |-> 0, code |-> 0]

DRCSTypes == {"DRCS0", "DRCS1", "DRCS2", "DRCS3", "DRCS4", "DRCS5", "DRCS6",
              "DRCS7", "DRCS8", "DRCS9", "DRCS10", "DRCS11", "DRCS12",
              "DRCS13", "DRCS14", "DRCS15"}
CharTypes == {"Kanji", "Alphanumeric", "Hiragana", "Katakana"}
SizeTypes == {"MSZ", "NSZ", "SSZ"}

\* The keys of ASSFormatter.DISPLAYED_CC_STATEMENTS.
DISPLAYED_CC_STATEMENTS ==
    CharTypes \cup DRCSTypes \cup SizeTypes \cup ColorTypes
        \cup {"APS", "SP", "CS", "CSI"}

\* The handlers that call formatter.open_file() first.
OpeningTypes == CharTypes \cup SizeTypes \cup ColorTypes \cup {"SP"}

DrcsCodes == {33}
DrcsCode == CHOOSE c \in DrcsCodes : TRUE

KanjiTok == Tok("Kanji", "<U+5B57>")
AlnumTok == Tok("Alphanumeric", "A")
DrcsTok == [Tok("DRCS0", "") EXCEPT !.code = DrcsCode]
SpTok == Tok("SP", " ")
SszTok == Tok("SSZ", "<Small Text>")
NszTok == Tok("NSZ", "<Normal Text>")
BkfTok == Tok("BKF", "<black>")
ApsTok == [Tok("APS", "<APS>") EXCEPT !.row = 1, !.col = 2]
CsiATok == Tok("CSI", "<CS:\"170;389 a\">")
CsiSTok == Tok("CSI", "<CS:\"7 S\">")
ColTok == Tok("COL", "<COL>")
CsTok == Tok("CS", "<CS>")

\* The tokens a statement body is drawn from.
Tokens ==
    {KanjiTok, DrcsTok, SpTok, SszTok, BkfTok, ApsTok, CsiATok, CsiSTok, ColTok,
     CsTok}

StatementBodyUnit(toks) ==
    [type |-> "StatementBody", tokens |-> toks, mode |-> 0, hash |-> "", code |-> 0]
DRCSUnit(code, mode, hash) ==
    [type |-> "DRCS", tokens |-> <<>>, mode |-> mode, hash |-> hash, code |-> code]
OtherUnit == [type |-> "Other", tokens |-> <<>>, mode |-> 0, hash |-> "", code |-> 0]
\* A data unit whose first byte is not the unit separator 0x1F.
BadUnit == [type |-> "Bad", tokens |-> <<>>, mode |-> 0, hash |-> "", code |-> 0]

\* The data units a caption statement is drawn from: a statement body of no
\* token, of one token, of a character and a Clear Screen, of a small
\* character and a Clear Screen, or of two positioned characters and a Clear
\* Screen; a DRCS unit defining the music note, an unknown glyph, or a glyph
\* of a mode that is not supported; a unit of another type.
Bodies ==
    {<<>>, <<KanjiTok, CsTok>>, <<SszTok, KanjiTok, CsTok>>,
     <<KanjiTok, ApsTok, AlnumTok, CsTok>>}
        \cup {<<t>> : t \in Tokens}
DataUnits ==
    {StatementBodyUnit(b) : b \in Bodies}
        \cup {DRCSUnit(DrcsCode, 0, MusicNoteHash), DRCSUnit(DrcsCode, 1, "0"),
              DRCSUnit(DrcsCode, 2, "0"), OtherUnit}

\* The PES payloads: caption management data announcing 0 or 1 language,
\* a caption statement of one unit, or of a DRCS unit before a statement
\* body, a statement body before a unit without its separator, a DRCS unit
\* of an unsupported mode before a statement body, and a payload that does
\* not parse as a data group.
Statement(us) == [kind |-> "statement", numlang |-> 0, units |-> us]
Management(n) == [kind |-> "management", numlang |-> n, units |-> <<>>]
Malformed == [kind |-> "malformed", numlang |-> 0, units |-> <<>>]
PesPayloads ==
    {Statement(<<u>>) : u \in DataUnits}
        \cup {Statement(<<DRCSUnit(DrcsCode, 0, MusicNoteHash),
                          StatementBodyUnit(<<DrcsTok, CsTok>>)>>),
              Statement(<<StatementBodyUnit(<<KanjiTok, CsTok>>), BadUnit>>),
              Statement(<<DRCSUnit(DrcsCode, 2, "0"),
                          StatementBodyUnit(<<KanjiTok, CsTok>>)>>)}
        \cup {Management(0), Management(1), Malformed}

\* Units built only as far as the first one.
UnitsRaiseFirst(us) ==
    /\ us # <<>>
    /\ \/ Head(us).type = "Bad"
       \/ Head(us).type = "DRCS" /\ DRCSFont(Head(us).mode, Head(us).hash).raised

\* Whether building the data group raises: the payload does not parse, a
\* DRCS font has an unsupported mode, or a data unit lacks its separator.
\* CaptionStatementData.__init__ builds every data unit of the payload.
RECURSIVE UnitsRaise(_)
UnitsRaise(us) ==
    IF us = <<>> THEN FALSE
    ELSE \/ Head(us).type = "Bad"
         \/ Head(us).type = "DRCS" /\ DRCSFont(Head(us).mode, Head(us).hash).raised
         \/ UnitsRaise(Tail(us))

ParseRaises(pes) == pes.kind = "malformed" \/ UnitsRaise(pes.units)

\* The DRCS table after the units of a statement, each DRCS unit registering
\* its glyph's character under its code.
RECURSIVE DefineGlyphs(_, _)
DefineGlyphs(table, us) ==
    IF us = <<>> THEN table
    ELSE LET u == Head(us)
             t == IF u.type = "DRCS"
                  THEN [table EXCEPT ![u.code] =
                            Some(DRCSFont(u.mode, u.hash)._character)]
                  ELSE table
         IN DefineGlyphs(t, Tail(us))

\* A DRCS character decoded against the table: its text is the registered
\* substitute, or the replacement character.
DecodeToken(table, t) ==
    IF t.type \in DRCSTypes
    THEN [t EXCEPT !.text = IF table[t.code] # None THEN table[t.code][1]
                            ELSE ReplacementChar]
    ELSE t

RECURSIVE DecodeUnits(_, _)
DecodeUnits(table, us) ==
    IF us = <<>> THEN <<>>
    ELSE LET u == Head(us)
             t == DefineGlyphs(table, <<u>>)
         IN <<[u EXCEPT !.tokens =
                    [i \in 1..Len(u.tokens) |-> DecodeToken(t, u.tokens[i])]]>>
                \o DecodeUnits(t, Tail(us))

----------------------------------------------------------------------------
(* ass.py: ASSFormatter.format, over the tokens of one statement body *)

\* DISPLAYED_CC_STATEMENTS[type(c)](self, c, timestamp) for the handlers that
\* neither write Dialogue lines nor need the timestamp.
Dispatch(f, c) ==
    CASE c.type = "Kanji" -> kanji(f, c)
      [] c.type = "Alphanumeric" -> alphanumeric(f, c)
      [] c.type = "Hiragana" -> hiragana(f, c)
      [] c.type = "Katakana" -> katakana(f, c)
      [] c.type = "MSZ" -> medium(f, c)
      [] c.type = "NSZ" -> normal(f, c)
      [] c.type = "SSZ" -> small(f, c)
      [] c.type = "SP" -> space(f, c)
      [] c.type \in ColorTypes -> color(f, c)
      [] c.type \in DRCSTypes -> drcs(f, c)
      [] c.type = "APS" -> position_set(f, c)
      [] c.type = "CSI" -> control_character(f, c)

NonEmptyCount(lines) == Cardinality({i \in 1..Len(lines) : Len(lines[i]) # 0})

Min(a, b) == IF a <= b THEN a ELSE b

\* A Clear Screen met with a non-empty buffer and start < end, the end being
\* the timestamp capped at start + tmax.
ClearsSomething(f, ts) ==
    /\ NonEmptyCount(f._current_lines) > 0
    /\ f._elapsed_time_s
           < Min(ts, f._elapsed_time_s + f._tmax * TicksPerSecond)

\* What one OnESPacket call works on: the formatter, the output file, the
\* exception that has left format() if any, the writes to the file so far in
\* this call, the timestamp of the latest Clear Screen gone through, and what
\* the call adds to nFlushed and nClears.
World(a, file, cs) ==
    [ass |-> a, file |-> file, raised |-> "", writes |-> 0, last_cs |-> cs,
     flushed |-> 0, clears |-> 0]

\* What the file system does during one call: whether ASSFile() raises, and
\* which write of a Dialogue line raises (0: none).
NoFailure == [open_raises |-> FALSE, write_raises |-> 0]

\* An opening handler that opens the file anew each time, which truncates it
\* and writes the header again.
HandleOpening_reopen(w, c, env) ==
    LET f == w.ass[1]
    IN IF ~f._ass_file /\ env.open_raises
       THEN [w EXCEPT !.raised = "FileOpenError"]
       ELSE [w EXCEPT !.ass = Some(Dispatch(open_file(f), c)),
                      !.file = ASSFileInit]

\* A handler that starts with formatter.open_file().
HandleOpening(w, c, env) ==
    LET f == w.ass[1]
    IN IF ~f._ass_file /\ env.open_raises
       THEN [w EXCEPT !.raised = "FileOpenError"]
       ELSE [w EXCEPT !.ass = Some(Dispatch(open_file(f), c)),
                      !.file = IF f._ass_file THEN @ ELSE ASSFileInit]

\* clear_screen, with the write that raises if one does: the lines before it
\* are in the file and the rest of clear_screen is not run.
HandleClearScreen(w, c, ts, env) ==
    LET f == w.ass[1]
        lines == cs_lines(f, ts)
        n == IF f._ass_file THEN Len(lines) ELSE 0
        fails == env.write_raises > w.writes /\ env.write_raises <= w.writes + n
        done == IF fails THEN env.write_raises - w.writes - 1 ELSE n
        counted == IF ClearsSomething(f, ts) THEN 1 ELSE 0
        expected == IF f._ass_file /\ cs_start_time(f) # cs_end_time(f, ts)
                    THEN NonEmptyCount(f._current_lines) ELSE 0
    IN IF fails
       THEN [w EXCEPT !.ass = Some(cs_after_loop(f, done)),
                      !.file = @ \o SubSeq(lines, 1, done),
                      !.raised = "IOError",
                      !.writes = @ + done,
                      !.flushed = @ + done,
                      !.clears = @ + counted]
       ELSE [w EXCEPT !.ass = Some(clear_screen(f, ts)),
                      !.file = @ \o SubSeq(lines, 1, n),
                      !.writes = @ + n,
                      !.last_cs = ts,
                      !.flushed = @ + expected,
                      !.clears = @ + counted]

\* A loop of format() that flushes the buffers after every token that opens
\* the file, as if each were followed by a Clear Screen.
HandleToken_flushing(w, c, ts, env) ==
    IF w.raised # "" THEN w
    ELSE IF c.type \notin DISPLAYED_CC_STATEMENTS THEN w
    ELSE IF c.type = "CS" THEN HandleClearScreen(w, c, ts, env)
    ELSE IF c.type \in OpeningTypes
    THEN LET w1 == HandleOpening(w, c, env)
         IN IF w1.raised # "" THEN w1 ELSE HandleClearScreen(w1, c, ts, env)
    ELSE [w EXCEPT !.ass = Some(Dispatch(w.ass[1], c))]

\* One turn of the loop of format().
HandleToken(w, c, ts, env) ==
    IF w.raised # "" THEN w
    ELSE IF c.type \notin DISPLAYED_CC_STATEMENTS THEN w
    ELSE IF c.type = "CS" THEN HandleClearScreen(w, c, ts, env)
    ELSE IF c.type \in OpeningTypes THEN HandleOpening(w, c, env)
    ELSE [w EXCEPT !.ass = Some(Dispatch(w.ass[1], c))]

RECURSIVE format(_, _, _, _)
format(w, captions, ts, env) ==
    IF captions = <<>> THEN w
    ELSE format(HandleToken(w, Head(captions), ts, env), Tail(captions), ts, env)

----------------------------------------------------------------------------
(* ts2ass.py: the state after the module is loaded and main() has read args *)

Init ==
    /\ pc = "start"
    /\ exit_code = 0
    /\ infile_exists \in BOOLEAN
    /\ SILENT \in BOOLEAN
    /\ pid \in PidOptions
    /\ tmax \in TmaxValues
    /\ time_offset \in TimeOffsets
    /\ initial_timestamp = None
    /\ elapsed_time_s = 0
    /\ ass = None
    /\ ass_file = <<>>
    /\ drcs_table = [c \in DrcsCodes |-> None]
    /\ timestamp = 0
    /\ nStatements = 0
    /\ last = None
    /\ last_cs = 0
    /\ first_mgmt = None
    /\ nFlushed = 0
    /\ nClears = 0

driver_vars == <<infile_exists, SILENT, tmax, time_offset>>
clock_vars == <<initial_timestamp, elapsed_time_s>>
formatter_vars == <<ass, ass_file, timestamp, last, last_cs, nFlushed, nClears>>
detect_vars == <<pid, first_mgmt>>

\* sys.exit(code)
Exit(code) == pc' = "exited" /\ exit_code' = code

----------------------------------------------------------------------------
(* ts2ass.py: main() up to ts.Parse() *)

\* The input file does not exist and SILENT is off: the message, sys.exit(-1).
MainInputMissing ==
    /\ pc = "start"
    /\ ~infile_exists /\ ~SILENT
    /\ Exit(-1)
    /\ UNCHANGED <<driver_vars, clock_vars, formatter_vars, detect_vars,
                   drcs_table,
                   nStatements>>

\* The input file does not exist and SILENT is on: main goes on to
\* TS(infilename).Parse(), which cannot read the file; the error is fatal.
MainParseMissing ==
    /\ pc = "start"
    /\ ~infile_exists /\ SILENT
    /\ Exit(1)
    /\ UNCHANGED <<driver_vars, clock_vars, formatter_vars, detect_vars,
                   drcs_table,
                   nStatements>>

MainParse ==
    /\ pc = "start"
    /\ infile_exists
    /\ pc' = "parse"
    /\ UNCHANGED <<exit_code, driver_vars, clock_vars, formatter_vars, detect_vars,
                   drcs_table, nStatements>>

----------------------------------------------------------------------------
(* ts2ass.py: OnTSPacket *)

\* An OnTSPacket that takes every PCR as the first one.
OnTSPacket_restart(pcr) ==
    /\ pc = "parse"
    /\ IF pcr > 0
       THEN /\ initial_timestamp' = Some(pcr)
            /\ elapsed_time_s' = time_offset
       ELSE UNCHANGED clock_vars
    /\ UNCHANGED <<pc, exit_code, driver_vars, formatter_vars, detect_vars,
                   drcs_table,
                   nStatements>>

OnTSPacket(pcr) ==
    /\ pc = "parse"
    /\ IF pcr > 0
       THEN LET current_timestamp == pcr
                init == IF initial_timestamp # None THEN initial_timestamp[1]
                        ELSE current_timestamp
                delta == current_timestamp - init
            IN /\ initial_timestamp' = Some(init)
               /\ elapsed_time_s' = delta + time_offset
       ELSE UNCHANGED clock_vars
    /\ UNCHANGED <<pc, exit_code, driver_vars, formatter_vars, detect_vars,
                   drcs_table,
                   nStatements>>

----------------------------------------------------------------------------
(* ts2ass.py: OnESPacket *)

\* The for loop over next_data_unit(caption): a unit that is no StatementBody
\* is passed over; for a StatementBody the formatter is made if there is none
\* and ass.format(payload, elapsed_time_s) is called.
RECURSIVE VisitUnits(_, _, _, _, _)
VisitUnits(w, us, ts, env, mk) ==
    IF us = <<>> \/ w.raised # "" THEN w
    ELSE IF Head(us).type # "StatementBody"
    THEN VisitUnits(w, Tail(us), ts, env, mk)
    ELSE LET w1 == IF w.ass = None THEN [w EXCEPT !.ass = Some(mk)] ELSE w
         IN VisitUnits(format(w1, Head(us).tokens, ts, env), Tail(us), ts, env, mk)

HasStatementBody(us) == \E i \in 1..Len(us) : us[i].type = "StatementBody"

\* The ways the file system can fail during the call that visits `us`.
Envs(us) ==
    LET w == VisitUnits(World(ass, ass_file, last_cs), us, elapsed_time_s,
                        NoFailure, ASSFormatter(tmax, ~SILENT))
        opens == /\ w.ass # None /\ w.ass[1]._ass_file
                 /\ ~(ass # None /\ ass[1]._ass_file)
    IN {NoFailure}
         \cup (IF opens THEN {[open_raises |-> TRUE, write_raises |-> 0]} ELSE {})
         \cup {[open_raises |-> FALSE, write_raises |-> k] : k \in 1..w.writes}

\* An OnESPacket that takes the PID of any packet as the selected one.
OnESPacketOtherPid_reselect(current_pid) ==
    /\ pc = "parse"
    /\ pid >= 0 /\ current_pid # pid
    /\ pid' = current_pid
    /\ UNCHANGED <<pc, exit_code, driver_vars, clock_vars, formatter_vars,
                   first_mgmt, drcs_table, nStatements>>

\* pid >= 0 and current_pid != pid: return, the packet not looked at.
OnESPacketOtherPid(current_pid) ==
    /\ pc = "parse"
    /\ pid >= 0 /\ current_pid # pid
    /\ UNCHANGED vars

\* Building the DataGroup raises: the except clauses print and return.
OnESPacketRaises(current_pid, pes) ==
    /\ pc = "parse"
    /\ ~(pid >= 0 /\ current_pid # pid)
    /\ ParseRaises(pes)
    /\ UNCHANGED vars

\* A selection that wants more than one language.
management_pid_two(pid_, current_pid, numlang) ==
    IF pid_ < 0 /\ numlang > 1 THEN current_pid ELSE pid_

\* The management branch: pid after `if pid < 0 and numlang > 0`.
management_pid(pid_, current_pid, numlang) ==
    IF pid_ < 0 /\ numlang > 0 THEN current_pid ELSE pid_

\* Caption management data.
OnESPacketManagement(current_pid, pes) ==
    /\ pc = "parse"
    /\ ~(pid >= 0 /\ current_pid # pid)
    /\ ~ParseRaises(pes)
    /\ pes.kind = "management"
    /\ pid' = management_pid(pid, current_pid, pes.numlang)
    /\ first_mgmt' = IF first_mgmt = None /\ pes.numlang > 0
                     THEN Some(current_pid) ELSE first_mgmt
    /\ UNCHANGED <<pc, exit_code, driver_vars, clock_vars, formatter_vars,
                   drcs_table, nStatements>>

\* Caption statement data: the data units are all built, then visited.  A
\* FileOpenError is raised again and ends the run: nothing above catches it,
\* and the interpreter exits with status 1.  Any other exception is printed
\* and the call returns.
OnESPacketStatement(current_pid, pes) ==
    /\ pc = "parse"
    /\ ~(pid >= 0 /\ current_pid # pid)
    /\ ~ParseRaises(pes)
    /\ pes.kind = "statement"
    /\ nStatements < MaxStatements
    /\ nStatements' = nStatements + 1
    /\ drcs_table' = DefineGlyphs(drcs_table, pes.units)
    /\ \E env \in Envs(DecodeUnits(drcs_table, pes.units)) :
         LET us == DecodeUnits(drcs_table, pes.units)
             w == VisitUnits(World(ass, ass_file, last_cs), us, elapsed_time_s,
                             env, ASSFormatter(tmax, ~SILENT))
         IN /\ ass' = w.ass
            /\ ass_file' = w.file
            /\ last' = Some([units |-> us, raised |-> w.raised])
            /\ last_cs' = w.last_cs
            /\ nFlushed' = nFlushed + w.flushed
            /\ nClears' = nClears + w.clears
            /\ IF w.raised = "FileOpenError" THEN Exit(1)
               ELSE UNCHANGED <<pc, exit_code>>
    /\ timestamp' = IF HasStatementBody(pes.units) THEN elapsed_time_s
                    ELSE timestamp
    /\ UNCHANGED <<driver_vars, clock_vars, detect_vars>>

----------------------------------------------------------------------------
(* ts2ass.py: main() after ts.Parse() *)

MainExit ==
    /\ pc = "parse"
    /\ IF pid < 0 /\ ~SILENT THEN Exit(-1)
       ELSE IF ass # None /\ ~file_written(ass[1]) /\ ~SILENT THEN Exit(-1)
       ELSE Exit(0)
    /\ UNCHANGED <<driver_vars, clock_vars, formatter_vars, detect_vars,
                   drcs_table,
                   nStatements>>

----------------------------------------------------------------------------

Next ==
    \/ MainInputMissing
    \/ MainParseMissing
    \/ MainParse
    \/ \E pcr \in PcrValues : OnTSPacket(pcr)
    \/ \E p \in Pids : OnESPacketOtherPid(p)
    \/ \E p \in Pids, pes \in PesPayloads : OnESPacketRaises(p, pes)
    \/ \E p \in Pids, pes \in PesPayloads : OnESPacketManagement(p, pes)
    \/ \E p \in Pids, pes \in PesPayloads : OnESPacketStatement(p, pes)
    \/ MainExit

Spec == Init /\ [][Next]_vars

----------------------------------------------------------------------------
(* Reading the output file back *)

IsDialogue(line) ==
    /\ Len(line) >= Len(DialoguePrefix)
    /\ SubSeq(line, 1, Len(DialoguePrefix)) = DialoguePrefix

\* The positions of the Dialogue lines of a file.
Dialogues(file) == {i \in 1..Len(file) : IsDialogue(file[i])}

\* The first position of ch in s at or after `from`, 0 if there is none.
Find(s, ch, from) ==
    LET I == {i \in from..Len(s) : CharAt(s, i) = ch}
    IN IF I = {} THEN 0 ELSE CHOOSE i \in I : \A j \in I : i <= j

\* The Start and End fields of a Dialogue line.
StartField(line) ==
    SubSeq(line, Len(DialoguePrefix) + 1,
           Find(line, ",", Len(DialoguePrefix) + 1) - 1)
EndField(line) ==
    LET c1 == Find(line, ",", Len(DialoguePrefix) + 1)
    IN SubSeq(line, c1 + 1, Find(line, ",", c1 + 1) - 1)

Contains(s, sub) ==
    \E i \in 1..(Len(s) - Len(sub) + 1) : SubSeq(s, i, i + Len(sub) - 1) = sub

DigitValue(ch) == CHOOSE d \in 0..9 : ToString(d) = ch

RECURSIVE ParseNat(_)
ParseNat(s) ==
    IF Len(s) = 0 THEN 0
    ELSE 10 * ParseNat(SubSeq(s, 1, Len(s) - 1)) + DigitValue(CharAt(s, Len(s)))

ParseInt(s) ==
    IF CharAt(s, 1) = "-" THEN -ParseNat(SubSeq(s, 2, Len(s))) ELSE ParseNat(s)

\* A decimal number with two decimals, in hundredths.
ParseHundredths(s) ==
    LET dot == Find(s, ".", 1)
        neg == CharAt(s, 1) = "-"
        whole == ParseNat(SubSeq(s, IF neg THEN 2 ELSE 1, dot - 1))
        v == 100 * whole + ParseNat(SubSeq(s, dot + 1, Len(s)))
    IN IF neg THEN -v ELSE v

\* A time h:m:s of a Dialogue line read back, in centiseconds.
ParseAssTime(s) ==
    LET c1 == Find(s, ":", 1)
        c2 == Find(s, ":", c1 + 1)
    IN 360000 * ParseInt(SubSeq(s, 1, c1 - 1))
           + 6000 * ParseInt(SubSeq(s, c1 + 1, c2 - 1))
           + ParseHundredths(SubSeq(s, c2 + 1, Len(s)))

\* H:MM:SS.CC: one hour digit or more, then two-digit minutes, seconds and
\* centiseconds.
IsHMMSSCC(s) ==
    LET n == Len(s)
    IN /\ n >= 10
       /\ AllDigits(s, 1, n - 9)
       /\ CharAt(s, n - 8) = ":"
       /\ AllDigits(s, n - 7, n - 6)
       /\ CharAt(s, n - 5) = ":"
       /\ AllDigits(s, n - 4, n - 3)
       /\ CharAt(s, n - 2) = "."
       /\ AllDigits(s, n - 1, n)

\* The Dialogue lines the step under way adds to the file.
NewDialogues == {i \in Dialogues(ass_file') : i > Len(ass_file)}

\* The step under way is an OnESPacket call that visited a caption statement
\* and ended without an exception.
StatementVisited ==
    /\ nStatements' = nStatements + 1
    /\ last'[1].raised = ""

\* The last token of the last statement body of a caption statement is a
\* Clear Screen.
EndsWithCS(us) ==
    /\ us # <<>>
    /\ us[Len(us)].type = "StatementBody"
    /\ us[Len(us)].tokens # <<>>
    /\ us[Len(us)].tokens[Len(us[Len(us)].tokens)].type = "CS"

\* The caption statement is one statement body of one character token.
IsOneChar(us) ==
    /\ Len(us) = 1
    /\ us[1].type = "StatementBody"
    /\ Len(us[1].tokens) = 1
    /\ us[1].tokens[1].type \in CharTypes \cup DRCSTypes

\* The substitute strings of the known glyphs.
Substitutes == {character_hashes[h] : h \in DOMAIN character_hashes}

\* The caption statement has a DRCS character whose glyph is a known one.
ReferencesKnownGlyph(us) ==
    \E i \in 1..Len(us) : \E j \in 1..Len(us[i].tokens) :
        /\ us[i].tokens[j].type \in DRCSTypes
        /\ us[i].tokens[j].text \in Substitutes

StyleOf(size) ==
    CASE size = NORMAL -> "normal"
      [] size = MEDIUM -> "medium"
      [] size = SMALL -> "small"

----------------------------------------------------------------------------
(* Properties *)

\* C1: every Dialogue line in the file, its two times read back, has
\* start <= end <= start + tmax.
C1_DialogueTimesOrdered ==
    \A i \in Dialogues(ass_file) :
        LET start == ParseAssTime(StartField(ass_file[i]))
            end == ParseAssTime(EndField(ass_file[i]))
        IN start <= end /\ end <= start + 100 * tmax

C3_AsstimeFormat ==
    /\ \A t \in {timestamp, last_cs} : t >= 0 => IsHMMSSCC(asstime(t))
    /\ asstime(0) = "0:00:00.00"
    /\ asstime(3723 * TicksPerSecond + 45 * TicksPerCs) = "1:02:03.45"

\* C4: every Dialogue line a step writes starts at the timestamp of the
\* latest Clear Screen before it (0 if none) and ends at the smaller of the
\* current timestamp and start + tmax, both formatted by asstime.
C4_DialogueTimes ==
    [][\A i \in NewDialogues :
           /\ StartField(ass_file'[i]) = asstime(last_cs)
           /\ EndField(ass_file'[i]) =
                  asstime(Min(elapsed_time_s, last_cs + tmax * TicksPerSecond))]_vars

\* A line cut at start + tmax is in the file: the Clear Screen came more than
\* tmax after the one before it.
C4_CappedLine ==
    /\ timestamp > tmax * TicksPerSecond
    /\ last # None /\ last[1].raised = "" /\ EndsWithCS(last[1].units)
    /\ \E i \in Dialogues(ass_file) :
           /\ StartField(ass_file[i]) = asstime(0)
           /\ EndField(ass_file[i]) = asstime(tmax * TicksPerSecond)

\* C5: when the latest caption statement ended with a Clear Screen that
\* raised nothing, the formatter holds one empty buffer, its last-flush time
\* is the timestamp of the call, its size NORMAL and its colour white.
C5_ClearScreenResets ==
    (last # None /\ last[1].raised = "" /\ EndsWithCS(last[1].units))
        => /\ ass[1]._current_lines = <<"">>
           /\ ass[1]._elapsed_time_s = timestamp
           /\ ass[1]._current_textsize = NORMAL
           /\ ass[1]._current_color = WhiteColor

\* C6: the formatter's style is the one of its text size.
C6_StyleMatchesSize ==
    ass # None => ass[1]._current_style = StyleOf(ass[1]._current_textsize)

\* C7: once format() has been called, no later call gets a smaller timestamp.
C7_TimestampsNonDecreasing == [][ass # None => timestamp' >= timestamp]_vars

\* C8: a caption statement of one character token leaves the buffers as they
\* were, the token's text appended to the last one.
C8_CharAppended ==
    [][(StatementVisited /\ IsOneChar(last'[1].units))
          => LET before == IF ass = None THEN <<"">> ELSE ass[1]._current_lines
                 c == last'[1].units[1].tokens[1]
             IN ass'[1]._current_lines =
                    [before EXCEPT ![Len(before)] = @ \o c.text]]_vars

\* C9: a caption statement that references a DRCS character of a known glyph
\* and ends with a Clear Screen writes, if it writes any Dialogue line, one
\* that contains the glyph's substitute string.
C9_KnownGlyphWritten ==
    [][(/\ StatementVisited
        /\ ReferencesKnownGlyph(last'[1].units)
        /\ EndsWithCS(last'[1].units)
        /\ NewDialogues # {})
          => \E i \in NewDialogues : \E sub \in Substitutes :
                 Contains(ass_file'[i], sub)]_vars

\* C10: the exit code is not 0 when the input file is missing, when no
\* caption data came to the formatter, or when the file has no Dialogue line.
C10_ExitNonZero ==
    (/\ pc = "exited"
     /\ \/ ~infile_exists
        \/ ass = None
        \/ Dialogues(ass_file) = {})
        => exit_code # 0

\* C11: a selected PID never changes, and while none is selected the PID is
\* -1 until management data with a language is seen, and from then on the
\* PID of the first packet that carried such data.
C11_PidSelection ==
    [][/\ pid >= 0 => pid' = pid
       /\ pid < 0 => pid' = IF first_mgmt' = None THEN -1
                            ELSE first_mgmt'[1]]_vars

\* A PID that only management data can have selected (no option gives it) is
\* the selected one, and packets have been handled since.
C11_PidDetected == pid \notin PidOptions /\ nStatements > 0

\* C12: an OnESPacket call that gives a statement body to the formatter is
\* a call for a packet of the selected PID.
C12_FormatterFedFromSelectedPid ==
    [][\A p \in Pids : \A pes \in PesPayloads :
           (HasStatementBody(pes.units) /\ OnESPacketStatement(p, pes))
               => p = pid]_vars

\* A payload some part of which cannot be parsed.
FailsToParse(pes) ==
    \/ pes.kind = "malformed"
    \/ \E i \in 1..Len(pes.units) :
           \/ pes.units[i].type = "Bad"
           \/ pes.units[i].type = "DRCS" /\ pes.units[i].mode \notin {0, 1}

\* The call is for a packet the PID filter lets through.
Passes(p) == ~(pid >= 0 /\ p # pid)

\* C13: while packets are read, a packet whose payload fails to parse is
\* taken by OnESPacket, which then neither formats any of its statement
\* bodies nor reads it as management data, changes no variable and leaves
\* the program reading packets.
C13_FailedPesDropped ==
    \A p \in Pids : \A pes \in PesPayloads :
        (pc = "parse" /\ Passes(p) /\ FailsToParse(pes))
            => /\ ENABLED OnESPacketRaises(p, pes)
               /\ ~ENABLED OnESPacketStatement(p, pes)
               /\ ~ENABLED OnESPacketManagement(p, pes)
               /\ ~ENABLED (OnESPacketRaises(p, pes) /\ vars' # vars)

\* With captions in the formatter and room for more statements, a payload
\* whose bad unit follows a well-formed statement body is there to be taken.
C13_DropAfterGoodUnit ==
    /\ pc = "parse"
    /\ ass # None /\ ass[1]._ass_file
    /\ nStatements < MaxStatements
    /\ ENABLED OnESPacketRaises(
           pid, Statement(<<StatementBodyUnit(<<KanjiTok, CsTok>>), BadUnit>>))

\* C14: when the latest caption statement ended with an error of the output
\* file, raised in opening it or in writing a Dialogue line, the run is over
\* with a non-zero exit code.
C14_FileErrorsEndRun ==
    (last # None /\ last[1].raised \in {"FileOpenError", "IOError"})
        => pc = "exited" /\ exit_code # 0

\* A caption statement with a DRCS font of an unsupported mode.
HasUnsupportedDrcs(pes) ==
    /\ pes.kind = "statement"
    /\ \E i \in 1..Len(pes.units) :
           pes.units[i].type = "DRCS" /\ pes.units[i].mode \notin {0, 1}
    /\ \A i \in 1..Len(pes.units) : pes.units[i].type # "Bad"

\* C15: a caption statement whose DRCS font has an unsupported mode is
\* handled like any other caption statement: its data units are visited and
\* its statement bodies formatted.
C15_UnsupportedDrcsGoesOn ==
    \A p \in Pids : \A pes \in PesPayloads :
        (/\ pc = "parse" /\ Passes(p) /\ nStatements < MaxStatements
         /\ HasUnsupportedDrcs(pes))
            => ENABLED OnESPacketStatement(p, pes)

\* A token whose handler puts text in a buffer.
AddsContent(c) ==
    \/ c.type \in CharTypes \cup DRCSTypes \cup SizeTypes \cup ColorTypes
                      \cup {"SP", "APS"}
    \/ c.type = "CSI" /\ a_match(c.text) # None

\* Some token of a caption statement adds content.
SomeTokenAddsContent(us) ==
    \E i \in 1..Len(us) : \E j \in 1..Len(us[i].tokens) :
        AddsContent(us[i].tokens[j])

\* C16: a caption statement handled while the output file is not open opens
\* it if and only if one of its tokens adds content to a buffer.
C16_OpenedOnFirstContent ==
    [][(StatementVisited /\ ~(ass # None /\ ass[1]._ass_file))
          => (ass'[1]._ass_file <=> SomeTokenAddsContent(last'[1].units))]_vars

\* Rows and columns of the caption plane the positions are computed for.
MaxRow == 7
MaxCol == 14

\* The position the specification gives for row r, column c at a text size.
SpecifiedPos(r, c, size) ==
    [x |-> IF size = NORMAL THEN 170 + 40 * c ELSE 170 + 20 * c,
     y |-> IF size = SMALL THEN 30 + 30 * (r + 1) ELSE 30 + 60 * (r + 1)]

\* The override tag of a position, each coordinate written as an integer or
\* as a float holding a whole number.
PosTags(p) ==
    {"{\\pos(" \o ToString(p.x) \o fx \o "," \o ToString(p.y) \o fy \o ")}" :
         fx \in {"", ".0"}, fy \in {"", ".0"}}

\* C17: for every row r and column c, RowCol2ScreenPos gives x = 170 + 40c
\* and y = 30 + 60(r+1) for NORMAL, x = 170 + 20c and y = 30 + 60(r+1) for
\* MEDIUM, x = 170 + 20c and y = 30 + 30(r+1) for SMALL; the buffer an Active
\* Position Set opens in any state of the formatter carries that position.
\* The function depends on no variable, so the grid of rows and columns is
\* evaluated in the initial states only.
C17_RowCol2ScreenPos ==
    /\ pc = "start" =>
           \A r \in 0..MaxRow : \A c \in 0..MaxCol :
           \A size \in {SMALL, MEDIUM, NORMAL} :
               /\ RowCol2ScreenPos(r, c, size).x.v = SpecifiedPos(r, c, size).x
               /\ RowCol2ScreenPos(r, c, size).y.v = SpecifiedPos(r, c, size).y
    /\ SpecifiedPos(1, 2, NORMAL) = [x |-> 250, y |-> 150]
    /\ SpecifiedPos(1, 2, MEDIUM) = [x |-> 210, y |-> 150]
    /\ SpecifiedPos(1, 2, SMALL) = [x |-> 210, y |-> 90]
    /\ ass # None =>
           LET lines == position_set(ass[1], ApsTok)._current_lines
               line == lines[Len(lines)]
               pos == SpecifiedPos(ApsTok.row, ApsTok.col,
                                   ass[1]._current_textsize)
           IN \E tag \in PosTags(pos) :
                  SubSeq(line, Len(line) - Len(tag) + 1, Len(line)) = tag

\* An Active Position Set to row 1, column 2 at normal size has put the
\* position (170 + 40 * 2, 30 + 60 * 2) in a buffer.
C17_PositionInBuffer ==
    /\ ass # None
    /\ \E i \in 1..Len(ass[1]._current_lines) :
           Contains(ass[1]._current_lines[i], "{\\pos(250,150)}")
    /\ RowCol2ScreenPos(ApsTok.row, ApsTok.col, NORMAL) =
           [x |-> Num(250, FALSE), y |-> Num(150, FALSE)]

-----------------------------------------------------------------------------
(* closed_caption.py: the bytes of a data unit *)

MaxPayload == 2

UnitSeparator == 31      \* 0x1F
StatementBodyID == 32    \* StatementBody.ID = 0x20
SpByte == 32             \* 0x20, SP
CsByte == 12             \* 0x0C, Clear Screen
ApsByte == 28            \* 0x1C, Active Position Set, two parameter bytes
KanjiByte == 48          \* 0x30, a byte of the two-byte set invoked in GL

\* The number of bytes Decoder.decode reads for the token that starts with
\* byte b, which is also the token's len().
TokenBytes(b) ==
    IF b = ApsByte THEN 3
    ELSE IF b >= 33 /\ b <= 126 THEN 2
    ELSE 1

\* read.ui3b: three bytes, big-endian.
ui3b(f, pos) == f[pos] * 65536 + f[pos + 1] * 256 + f[pos + 2]

\* StatementBody.parse_contents from position pos of f: tokens are decoded
\* while bytes_read < bytes_to_read; a read past the end of f raises.
RECURSIVE parse_contents(_, _, _, _)
parse_contents(f, pos, bytes_read, bytes_to_read) ==
    IF ~(bytes_read < bytes_to_read)
    THEN [raised |-> FALSE, pos |-> pos, bytes_read |-> bytes_read]
    ELSE IF pos > Len(f) \/ pos + TokenBytes(f[pos]) - 1 > Len(f)
    THEN [raised |-> TRUE, pos |-> pos, bytes_read |-> bytes_read]
    ELSE parse_contents(f, pos + TokenBytes(f[pos]),
                        bytes_read + TokenBytes(f[pos]), bytes_to_read)

\* DataUnit.__init__ and load_unit on the bytes f: the separator, the type,
\* the size, then the payload by type.
DataUnit(f) ==
    IF Len(f) < 5 \/ f[1] # UnitSeparator
    THEN [raised |-> TRUE, pos |-> 1, bytes_read |-> 0]
    ELSE LET data_unit_type == f[2]
             data_unit_size == ui3b(f, 3)
         IN IF data_unit_type = StatementBodyID
            THEN parse_contents(f, 6, 0, data_unit_size)
            ELSE [raised |-> 6 + data_unit_size - 1 > Len(f),
                  pos |-> 6 + data_unit_size, bytes_read |-> 0]

\* Payloads of a statement body, and the bytes that follow the data unit in
\* the caption statement: nothing, or the separator of the next data unit.
PayloadBytes == {SpByte, CsByte, KanjiByte}
Payloads ==
    UNION {[1..n -> PayloadBytes] : n \in 0..MaxPayload}
Trailers == {<<>>, <<UnitSeparator>>}
UnitBytes(payload, trailer) ==
    <<UnitSeparator, StatementBodyID, 0, 0, Len(payload)>> \o payload \o trailer

\* C18: while packets are read, the bytes 0x1F 0x20 <size24> <payload> parse
\* as a data unit whose tokens account for exactly size24 bytes, 5 + size24
\* bytes being consumed, for every payload of size24 bytes.
C18_DataUnitRoundTrip ==
    pc = "parse" =>
        \A payload \in Payloads : \A trailer \in Trailers :
            LET u == DataUnit(UnitBytes(payload, trailer))
            IN /\ ~u.raised
               /\ u.bytes_read = Len(payload)
               /\ u.pos - 1 = 5 + Len(payload)

\* C19: the formatter's elapsed_time_s, the time of the last flush used as
\* the start of the next Dialogue lines, is never negative.
C19_ElapsedTimeNonNegative ==
    ass # None => ass[1]._elapsed_time_s >= 0

\* The lines the step under way adds to the file.
NewLines == SubSeq(ass_file', Len(ass_file) + 1, Len(ass_file'))

\* The step under way is an OnESPacket call, ended without an exception, on
\* a caption statement whose only token is a Clear Screen: the buffers the
\* Clear Screen meets are those of the formatter before the step.
ClearScreenAlone ==
    /\ StatementVisited
    /\ last'[1].units = <<StatementBodyUnit(<<CsTok>>)>>
    /\ ass # None

\* C20: at a Clear Screen met with a non-empty buffer and different start
\* and end times, every non-empty buffer is written as one Dialogue line, in
\* reverse order of buffer creation, all lines with the same start time, the
\* same end time and the style "normal"; empty buffers give no line.
C20_BuffersWrittenInReverse ==
    [][(/\ ClearScreenAlone
        /\ NonEmptyCount(ass[1]._current_lines) > 0
        /\ cs_start_time(ass[1]) # cs_end_time(ass[1], elapsed_time_s))
          => LET bufs == SelectNonEmpty(Reversed(ass[1]._current_lines))
             IN /\ Len(NewLines) = Len(bufs)
                /\ \A i \in 1..Len(bufs) :
                       /\ IsDialogue(NewLines[i])
                       /\ NewLines[i] =
                              DialogueLine(StartField(NewLines[1]),
                                           EndField(NewLines[1]), bufs[i])]_vars

\* Some token of a caption statement is a Clear Screen.
SomeTokenIsCS(us) ==
    \E i \in 1..Len(us) : \E j \in 1..Len(us[i].tokens) :
        us[i].tokens[j].type = "CS"

\* C21: Dialogue lines are written only by a step that handles a Clear
\* Screen token; the end of the run writes nothing, so text accumulated
\* after the last Clear Screen never reaches the file.
C21_DialoguesOnlyAtClearScreen ==
    [][/\ NewDialogues # {} =>
              /\ nStatements' = nStatements + 1
              /\ SomeTokenIsCS(last'[1].units)
       /\ (pc' = "exited" /\ nStatements' = nStatements) => ass_file' = ass_file]_vars

\* The run has ended normally after a Clear Screen wrote a line and later
\* text was put in a buffer: the text is in no line of the file.
C21_TrailingTextDiscarded ==
    /\ pc = "exited" /\ exit_code = 0
    /\ ass # None /\ ass[1]._ass_file
    /\ Dialogues(ass_file) # {}
    /\ ~SomeTokenIsCS(last[1].units)
    /\ NonEmptyCount(ass[1]._current_lines) > 0
    /\ Cardinality(Dialogues(ass_file)) = nFlushed

\* C22: when a Clear Screen step removes non-empty buffers from
\* _current_lines, the text of each of them is in a Dialogue line the same
\* step has written.
C22_NoTextLost ==
    [][(/\ ClearScreenAlone
        /\ \E i \in 1..Len(ass[1]._current_lines) :
               /\ Len(ass[1]._current_lines[i]) # 0
               /\ \A j \in 1..Len(ass'[1]._current_lines) :
                      ass'[1]._current_lines[j] # ass[1]._current_lines[i])
          => \A i \in 1..Len(ass[1]._current_lines) :
                 Len(ass[1]._current_lines[i]) # 0 =>
                     \E k \in NewDialogues :
                         Contains(ass_file'[k], ass[1]._current_lines[i])]_vars

\* The step under way is an OnESPacket call, ended without an exception, on
\* a caption statement whose only token is c, the formatter existing before.
TokenAlone(c) ==
    /\ StatementVisited
    /\ last'[1].units = <<StatementBodyUnit(<<c>>)>>
    /\ ass # None

\* C23: an APS(row, col) token appends exactly one buffer, whose text is the
\* style reset of the current style, the current colour and the \pos of
\* RowCol2ScreenPos(row, col, current text size); the earlier buffers, the
\* style, the text size, the colour and the rest of the formatter stay as
\* they were, and nothing is written.
C23_ApsAppendsOneBuffer ==
    [][TokenAlone(ApsTok) =>
           LET f == ass[1]
               g == ass'[1]
               pos == RowCol2ScreenPos(ApsTok.row, ApsTok.col, f._current_textsize)
               text == "{\\r" \o f._current_style \o "}" \o f._current_color
                           \o "{\\pos(" \o StrNum(pos.x) \o "," \o StrNum(pos.y) \o ")}"
           IN /\ g._current_lines = Append(f._current_lines, text)
              /\ g._current_style = f._current_style
              /\ g._current_textsize = f._current_textsize
              /\ g._current_color = f._current_color
              /\ g = [f EXCEPT !._current_lines = g._current_lines]
              /\ ass_file' = ass_file]_vars

\* An APS has been handled under a colour other than white: the colour is
\* in the new buffer and still the current one.
C23_ColourKeptAcrossAps ==
    /\ last # None /\ last[1].raised = ""
    /\ last[1].units = <<StatementBodyUnit(<<ApsTok>>)>>
    /\ ass[1]._current_color # WhiteColor
    /\ Len(ass[1]._current_lines) >= 2
    /\ Contains(ass[1]._current_lines[Len(ass[1]._current_lines)],
                ass[1]._current_color \o "{\\pos(250,150)}")

\* C24: a token that has no handler and a CSI token that is not of the
\* "<x>;<y> a" form leave the formatter as it was (buffers, style, text
\* size, colour, last-flush time, whether the file is open) and write
\* nothing.
C24_IgnoredTokens ==
    [][\A c \in {ColTok, CsiSTok} :
           TokenAlone(c) => (ass' = ass /\ ass_file' = ass_file)]_vars

\* A CSI of another form has been handled by a formatter that has its file
\* open and text in a buffer.
C24_CsiIgnoredWithText ==
    /\ last # None /\ last[1].raised = ""
    /\ last[1].units = <<StatementBodyUnit(<<CsiSTok>>)>>
    /\ a_match(CsiSTok.text) = None
    /\ ass[1]._ass_file
    /\ NonEmptyCount(ass[1]._current_lines) > 0

-----------------------------------------------------------------------------
(* closed_caption.py: the head of caption statement data *)

\* read.ulb: eight bytes, big-endian, as one 64-bit value d.  The value is
\* kept as its bytes; the two parts the source takes from it are d >> 28 and
\* d & 0xFFFFFFFF.
ulb_shr28(f, pos) ==
    f[pos] * 268435456 + f[pos + 1] * 1048576 + f[pos + 2] * 4096
        + f[pos + 3] * 16 + f[pos + 4] \div 16
ulb_and_FFFFFFFF(f, pos) ==
    f[pos + 4] * 16777216 + f[pos + 5] * 65536 + f[pos + 6] * 256 + f[pos + 7]

\* CaptionStatementData.__init__ up to the data unit loop: TMD, STM and
\* _data_unit_loop_length read from the bytes f.
CaptionStatementData(f) ==
    LET TMD == f[1] \div 64
    IN IF TMD = 1 \/ TMD = 2
       THEN [TMD |-> TMD, STM |-> ulb_shr28(f, 2),
             data_unit_loop_length |-> ulb_and_FFFFFFFF(f, 2)]
       ELSE [TMD |-> TMD, STM |-> 0, data_unit_loop_length |-> ui3b(f, 2)]

\* The bytes of a head with a time: TMD in the two high bits of the first
\* byte, then the 36 bits of STM, 4 reserved bits and the 24 bits of
\* data_unit_loop_length.
TimedHead(tmd, stm, reserved, len24) ==
    <<tmd * 64,
      stm \div 268435456, (stm \div 1048576) % 256, (stm \div 4096) % 256,
      (stm \div 16) % 256, (stm % 16) * 16 + reserved,
      len24 \div 65536, (len24 \div 256) % 256, len24 % 256>>

StmValues == {0, 5, 4096}
ReservedValues == {0, 15}
LoopLengths == {0, 6, 65541}

\* C26: while packets are read, for TMD 1 or 2 the data_unit_loop_length
\* that CaptionStatementData takes is the 24-bit field that follows the STM
\* and the reserved bits, whatever the STM and the reserved bits are.
C26_LoopLengthIs24Bits ==
    pc = "parse" =>
        \A tmd \in {1, 2} : \A stm \in StmValues :
        \A reserved \in ReservedValues : \A len24 \in LoopLengths :
            LET c == CaptionStatementData(TimedHead(tmd, stm, reserved, len24))
            IN /\ c.TMD = tmd
               /\ c.STM = stm
               /\ c.data_unit_loop_length = len24

-----------------------------------------------------------------------------
(* closed_caption.py: the language record of caption management data *)

\* Language.__init__ on the bytes f: the tag and DMF of the first byte, a DC
\* byte under the DMF test, three bytes of language code, the byte of format
\* and rollup mode; `size` is the number of bytes read.
Language(f) ==
    LET d == f[1]
        DMF == d % 8                       \* d & 0x7
        has_dc == DMF = 12 \/ DMF = 13 \/ DMF = 14
        at == IF has_dc THEN 3 ELSE 2
        formats == f[at + 3]
    IN [language_tag |-> d \div 32,
        DMF |-> DMF,
        read_dc |-> has_dc,
        DC |-> IF has_dc THEN f[2] ELSE 0,
        language_code |-> SubSeq(f, at, at + 2),
        format |-> formats \div 16,
        rollup_mode |-> formats % 4,
        size |-> at + 3]

\* The bytes of a language record: tag (3 bits), a reserved bit, DMF (4
\* bits); a DC byte when DMF is 0b1100, 0b1101 or 0b1110; the language code;
\* format (4 bits), two reserved bits and rollup mode (2 bits).
DcDmfs == {12, 13, 14}
LanguageBytes(tag, dmf, dc, code, fmt, rollup) ==
    <<tag * 32 + dmf>> \o (IF dmf \in DcDmfs THEN <<dc>> ELSE <<>>)
        \o code \o <<fmt * 16 + rollup>>

LanguageTags == {0, 1}
DmfValues == 0..15
DcValues == {1}
LanguageCodes == {<<106, 112, 110>>}      \* "jpn"
FormatValues == {8}
RollupModes == {0, 1}

\* C27: while packets are read, the language record parser reads a DC byte
\* exactly when the DMF is 0b1100, 0b1101 or 0b1110, and reads the language
\* code and the format and rollup mode from the right bytes, for every DMF.
C27_LanguageRecord ==
    pc = "parse" =>
        \A tag \in LanguageTags : \A dmf \in DmfValues : \A dc \in DcValues :
        \A code \in LanguageCodes : \A fmt \in FormatValues :
        \A rollup \in RollupModes :
            LET f == LanguageBytes(tag, dmf, dc, code, fmt, rollup)
                l == Language(f \o <<0>>)
            IN /\ l.read_dc <=> dmf \in DcDmfs
               /\ l.language_code = code
               /\ l.format = fmt
               /\ l.rollup_mode = rollup
               /\ l.size = Len(f)

\* C28: once the selected PID is >= 0, an ES packet of another PID changes
\* nothing, whatever it holds: it only takes the early return, which leaves
\* the selected PID, the formatter, its buffers and the output file as they
\* were.
C28_OtherPidIgnored ==
    \A p \in Pids :
        (pc = "parse" /\ pid >= 0 /\ p # pid)
            => /\ ENABLED OnESPacketOtherPid(p)
               /\ ~ENABLED (OnESPacketOtherPid(p) /\ vars' # vars)
               /\ \A pes \in PesPayloads :
                      /\ ~ENABLED OnESPacketStatement(p, pes)
                      /\ ~ENABLED OnESPacketManagement(p, pes)
                      /\ ~ENABLED OnESPacketRaises(p, pes)

\* A PID found from management data is selected, the formatter has its file
\* open and text in a buffer, and packets of the other PID go on coming.
C28_OtherPidWithOpenFile ==
    /\ pc = "parse"
    /\ pid = 257
    /\ ass # None /\ ass[1]._ass_file
    /\ NonEmptyCount(ass[1]._current_lines) > 0
    /\ ENABLED OnESPacketOtherPid(256)

\* The formatter exists and has its output file open.
FileOpen(a) == a # None /\ a[1]._ass_file

\* C29: the output file is opened at most once; the header, the styles and
\* the event header are written once, when it is opened; every later line is
\* a Dialogue line added after them; nothing is written while the file is
\* not open.
C29_OpenedOnceHeaderFirst ==
    [][/\ FileOpen(ass) =>
              /\ FileOpen(ass')
              /\ Len(ass_file') >= Len(ass_file)
              /\ SubSeq(ass_file', 1, Len(ass_file)) = ass_file
              /\ \A i \in (Len(ass_file) + 1)..Len(ass_file') :
                     IsDialogue(ass_file'[i])
       /\ ~FileOpen(ass) =>
              /\ ass_file = <<>>
              /\ IF FileOpen(ass')
                 THEN /\ SubSeq(ass_file', 1, Len(ASSFileInit)) = ASSFileInit
                      /\ \A i \in (Len(ASSFileInit) + 1)..Len(ass_file') :
                             IsDialogue(ass_file'[i])
                 ELSE ass_file' = <<>>]_vars

\* Two Clear Screens have each added a Dialogue line to a file that starts
\* with the one header.
C29_HeaderThenTwoFlushes ==
    /\ FileOpen(ass)
    /\ nClears = 2
    /\ Len(ass_file) = Len(ASSFileInit) + 2
    /\ SubSeq(ass_file, 1, Len(ASSFileInit)) = ASSFileInit
    /\ Dialogues(ass_file) = {Len(ASSFileInit) + 1, Len(ASSFileInit) + 2}

====
